---- MODULE Spec2Model ----
(***************************************************************************)
(* State-machine model of CDockWidgetTab (src/src/DockWidgetTab.cpp): the  *)
(* draggable tab of one dock widget.  The tab's private data               *)
(* (DockWidgetTabPrivate) is the state; every event handler and public     *)
(* setter is one action.  The dock areas, dock containers, floating        *)
(* containers and the container overlay the tab talks to are modelled only *)
(* as far as the tab reads or changes them.                                *)
(***************************************************************************)
EXTENDS Integers, Sequences, FiniteSets

(* ------------------------------ bounds --------------------------------- *)
\* largest local x coordinate a mouse event carries
MaxCoord == 2
\* largest number of visible dock areas in one container, and number of
\* dock area / floating container identities
MaxAreas == 2
\* largest number of tabs the dock widget's area holds
MaxTabs == 2
\* largest coordinate of the tab's own position inside its parent
MaxOrigin == 1
\* a dock area's size is one of 1..MaxSize
MaxSize == 2

(* --------------------------- program constants ------------------------- *)
\* QApplication::startDragDistance(), in the model's pixel unit
StartDragDistance == 2

\* enum eDragState
DraggingInactive == "DraggingInactive"
DraggingMousePressed == "DraggingMousePressed"
DraggingTab == "DraggingTab"
DraggingFloatingWidget == "DraggingFloatingWidget"

\* nullptr for CDockAreaWidget* and CFloatingDockContainer*
NoArea == 0
NoFloatingWidget == 0
\* the dock manager's main (non floating) container
MainContainer == 0

AreaIds == 1..MaxAreas
FloatingIds == 1..MaxAreas
Coords == 0..MaxCoord
\* pointer positions (ev->pos()) along the tab bar; the vertical coordinate is held at 0
Points == Coords \X {0}

\* Qt::MouseButton values an event can carry
LeftButton == "LeftButton"
RightButton == "RightButton"

\* DockWidgetArea masks of the container overlay
AllDockAreas == "AllDockAreas"
OuterDockAreas == "OuterDockAreas"

VARIABLES
    \* DockWidgetTabPrivate
    DragStartMousePosition, IsActiveTab, DockArea, DragState, FloatingWidget,
    \* the dock widget (DockWidget->...) and the docking engine around it
    dockAreaWidget, count, tabIndex, dockContainer, visibleDockAreaCount, movable,
    allowedAreas,
    \* what the last step did: signals emitted and calls made on collaborators
    clicked, activeTabChanged, polished, reorderCalls, startFloatingRet,
    newFloating, moveFloatingCalls, tabMoved,
    \* the process died on a null pointer dereference
    crashed,
    \* history of the current press..release gesture
    gesture

tabVars == <<DragStartMousePosition, IsActiveTab, DockArea, DragState, FloatingWidget>>
areaVars == <<dockAreaWidget, count, tabIndex, dockContainer, visibleDockAreaCount>>
envVars == <<areaVars, movable, allowedAreas>>
outVars == <<clicked, activeTabChanged, polished, reorderCalls, startFloatingRet,
             newFloating, moveFloatingCalls, tabMoved>>
vars == <<tabVars, envVars, outVars, crashed, gesture>>

(* ------------------------------ helpers -------------------------------- *)
\* QPoint(): the null point
NullPoint == <<0, 0>>

\* QPoint::isNull(): both coordinates are 0
isNull(p) == p[1] = 0 /\ p[2] = 0

Abs(n) == IF n < 0 THEN -n ELSE n

\* (a - b).manhattanLength()
manhattanLength(a, b) == Abs(a[1] - b[1]) + Abs(a[2] - b[2])

\* DockWidgetTabPrivate::isDraggingState
isDraggingState(dragState) == DragState = dragState

\* CDockContainerWidget::isFloating
isFloating(c) == c \in FloatingIds

\* DockArea->count(): DockArea is either unset or the dock widget's area
DockAreaCount == count

\* QWidget::size() of a dock area: areas of different identity differ in size
areaSize(a) == ((a - 1) % MaxSize) + 1

\* identity of the next CFloatingDockContainer / CDockAreaWidget object
FreshFloating == CHOOSE c \in FloatingIds : c # dockContainer /\ \A d \in FloatingIds : d < c => d = dockContainer
FreshArea == CHOOSE a \in AreaIds : a # dockAreaWidget /\ \A b \in AreaIds : b < a => b = dockAreaWidget

\* a step that emits nothing and calls no collaborator
Quiet ==
    /\ clicked' = 0
    /\ activeTabChanged' = 0
    /\ polished' = 0
    /\ reorderCalls' = <<>>
    /\ startFloatingRet' = "none"
    /\ newFloating' = <<>>
    /\ moveFloatingCalls' = 0
    /\ tabMoved' = <<>>

\* pressed: a left press arrived since the last release; far: a move at least
\* StartDragDistance away from the press position arrived since that press;
\* floated: a floating container was created since that press; detached:
\* DockArea was unset at that press or at some moment since
NoGesture == [pressed |-> FALSE, far |-> FALSE, floated |-> FALSE, detached |-> FALSE]

(* ------------------------------- Init ---------------------------------- *)
\* The tab right after its constructor; the dock widget is the only tab of
\* area 1, in the main container or in a floating one.
Init ==
    /\ DragStartMousePosition = NullPoint
    /\ IsActiveTab = FALSE
    /\ DockArea = NoArea
    /\ DragState = DraggingInactive
    /\ FloatingWidget = NoFloatingWidget
    /\ dockAreaWidget = 1
    /\ count = 1
    /\ tabIndex = 0
    /\ dockContainer \in {MainContainer, 1}
    /\ visibleDockAreaCount = 1
    /\ movable = TRUE
    /\ allowedAreas = AllDockAreas
    /\ clicked = 0
    /\ activeTabChanged = 0
    /\ polished = 0
    /\ reorderCalls = <<>>
    /\ startFloatingRet = "none"
    /\ newFloating = <<>>
    /\ moveFloatingCalls = 0
    /\ tabMoved = <<>>
    /\ crashed = FALSE
    /\ gesture = NoGesture

(* ------------------------- CDockWidgetTab handlers --------------------- *)
\* CDockWidgetTab::mousePressEvent(ev), ev->button() = button, ev->pos() = pos
mousePressEvent(button, pos) ==
    /\ ~crashed
    /\ IF button = LeftButton
       THEN /\ DragStartMousePosition' = pos
            /\ DragState' = DraggingMousePressed
            /\ gesture' = [pressed |-> TRUE, far |-> FALSE, floated |-> FALSE, detached |-> DockArea = NoArea]
       ELSE UNCHANGED <<DragStartMousePosition, DragState, gesture>>
    /\ Quiet
    /\ UNCHANGED <<IsActiveTab, DockArea, FloatingWidget, envVars, crashed>>

\* CDockAreaWidget::reorderDockWidget(fromIndex, toIndex) as the tab sees it:
\* the dock widget's tab ends up at toIndex
reorderDockWidget(fromIndex, toIndex) ==
    tabIndex' = IF toIndex \in 0..(DockAreaCount - 1) THEN toIndex ELSE tabIndex

\* what DockArea->indexOfContentByTitlePos(pos, this) can return
HitTests == {-1} \cup (0..(DockAreaCount - 1))

\* mutant: the fallback forgets the - 1
dropIndex_Count(hit) == IF -1 = hit THEN DockAreaCount ELSE hit

\* the drop index mouseReleaseEvent computes from the hit test result
dropIndex(hit) == IF -1 = hit THEN DockAreaCount - 1 ELSE hit

\* mutant: the reordering is done for a mere press as well
endsTabMoving_Pressed ==
    (isDraggingState(DraggingTab) \/ isDraggingState(DraggingMousePressed)) /\ DockArea # NoArea

\* the test that guards the reordering in mouseReleaseEvent
endsTabMoving == isDraggingState(DraggingTab) /\ DockArea # NoArea

\* mutant: clicked() is emitted for a mere press and release only
emitsClicked_NotAfterDrag == ~isNull(DragStartMousePosition) /\ isDraggingState(DraggingMousePressed)

\* the test that guards emit clicked() in mouseReleaseEvent
emitsClicked == ~isNull(DragStartMousePosition)

\* CDockWidgetTab::mouseReleaseEvent(ev); hit is what the hit test returns
\* for ev->globalPos() (-1 when the handler does not ask)
mouseReleaseEvent(hit) ==
    /\ ~crashed
    /\ IF endsTabMoving
       THEN /\ hit \in HitTests
            /\ reorderCalls' = <<[fromIndex |-> tabIndex, toIndex |-> dropIndex(hit)]>>
            /\ reorderDockWidget(tabIndex, dropIndex(hit))
       ELSE /\ hit = -1
            /\ reorderCalls' = <<>>
            /\ UNCHANGED tabIndex
    /\ clicked' = IF emitsClicked THEN 1 ELSE 0
    /\ DragStartMousePosition' = NullPoint
    /\ DragState' = DraggingInactive
    /\ gesture' = NoGesture
    /\ activeTabChanged' = 0
    /\ polished' = 0
    /\ startFloatingRet' = "none"
    /\ newFloating' = <<>>
    /\ moveFloatingCalls' = 0
    /\ tabMoved' = <<>>
    /\ UNCHANGED <<IsActiveTab, DockArea, FloatingWidget, crashed>>
    /\ UNCHANGED <<dockAreaWidget, count, dockContainer, visibleDockAreaCount, movable, allowedAreas>>

\* mutant: no early return
sameActiveState_Never(active) == FALSE

\* the early return of setActiveTab
sameActiveState(active) == IsActiveTab = active

\* CDockWidgetTab::setActiveTab(active); polished counts the restyling
\* (unpolish/polish of the tab and of its title label, update())
setActiveTab(active) ==
    /\ ~crashed
    /\ IF sameActiveState(active)
       THEN /\ UNCHANGED IsActiveTab
            /\ polished' = 0
            /\ activeTabChanged' = 0
       ELSE /\ IsActiveTab' = active
            /\ polished' = 1
            /\ activeTabChanged' = 1
    /\ clicked' = 0
    /\ reorderCalls' = <<>>
    /\ startFloatingRet' = "none"
    /\ newFloating' = <<>>
    /\ moveFloatingCalls' = 0
    /\ tabMoved' = <<>>
    /\ UNCHANGED <<DragStartMousePosition, DockArea, DragState, FloatingWidget>>
    /\ UNCHANGED <<envVars, crashed, gesture>>

\* CDockWidgetTab::setDockAreaWidget(area)
setDockAreaWidget(area) ==
    /\ ~crashed
    /\ DockArea' = area
    /\ gesture' = IF gesture.pressed THEN [gesture EXCEPT !.detached = @ \/ area = NoArea] ELSE gesture
    /\ Quiet
    /\ UNCHANGED <<DragStartMousePosition, IsActiveTab, DragState, FloatingWidget>>
    /\ UNCHANGED <<envVars, crashed>>

\* mutant: moveToPos.setY(0) is left out
moveTab_NoSetY(pos, origin) ==
    tabMoved' = <<[x |-> (pos[1] + origin[1]) - DragStartMousePosition[1],
                   y |-> (pos[2] + origin[2]) - DragStartMousePosition[2]]>>

\* DockWidgetTabPrivate::moveTab(ev), ev->pos() = pos; origin is the tab's own
\* position in its parent, which mapToParent adds.  tabMoved holds the
\* position handed to QWidget::move; the tab is raised right after.
moveTab(pos, origin) ==
    tabMoved' = <<[x |-> (pos[1] + origin[1]) - DragStartMousePosition[1], y |-> 0]>>

\* new CFloatingDockContainer(DockWidget): the dock widget leaves its area and
\* becomes the only tab of a new area in the new floating container, and the
\* new area takes over the tab (setDockAreaWidget); the area it came from
\* stays where it is with the other tabs
FloatDockWidget(window, size) ==
    /\ dockAreaWidget' = FreshArea
    /\ count' = 1
    /\ tabIndex' = 0
    /\ dockContainer' = window
    /\ visibleDockAreaCount' = 1
    /\ DockArea' = FreshArea
    /\ newFloating' = <<[window |-> window, content |-> "DockWidget", area |-> FreshArea,
                         pos |-> DragStartMousePosition, size |-> size,
                         originArea |-> dockAreaWidget, originCount |-> count - 1,
                         originContainer |-> dockContainer]>>

\* new CFloatingDockContainer(DockArea): the area itself, with its tabs,
\* moves into the new floating container
FloatDockArea(window, size) ==
    /\ dockContainer' = window
    /\ visibleDockAreaCount' = 1
    /\ newFloating' = <<[window |-> window, content |-> "DockArea", area |-> DockArea,
                         pos |-> DragStartMousePosition, size |-> size,
                         originArea |-> DockArea, originCount |-> count,
                         originContainer |-> window]>>
    /\ UNCHANGED <<dockAreaWidget, count, tabIndex, DockArea>>

\* mutant: the tab count is tested with > where the code has ==
lastWidgetOfFloating_CountAbove ==
    /\ isFloating(dockContainer)
    /\ visibleDockAreaCount = 1
    /\ count > 1

\* the test at the top of DockWidgetTabPrivate::startFloating
lastWidgetOfFloating ==
    /\ isFloating(dockContainer)
    /\ visibleDockAreaCount = 1
    /\ count = 1

\* mutants: the tab count is compared off by one, upwards and downwards
takesOnlyOneTab_Above2(n) == n > 2
takesOnlyOneTab_From1(n) == n >= 1

\* the branch DockWidgetTabPrivate::startFloating takes on DockArea->count()
takesOnlyOneTab(n) == n > 1

\* mutant: the size is read after the floating container took the dock widget
\* into its new area
startFloatingSize_AfterConstruction(garbage) == areaSize(FreshArea)

\* QSize Size = DockArea->size(), read before the floating container is made
startFloatingSize(garbage) == IF DockArea # NoArea THEN areaSize(DockArea) ELSE garbage.size

\* mutant: the overlay is left as it was
setAllowedAreas_Forgotten == UNCHANGED allowedAreas

\* Overlay->setAllowedAreas(OuterDockAreas)
setAllowedAreas == allowedAreas' = OuterDockAreas

\* mutant: the new floating container is not remembered
keepFloatingWidget_Forgotten(window) == UNCHANGED FloatingWidget

\* this->FloatingWidget = FloatingWidget
keepFloatingWidget(window) == FloatingWidget' = window

\* mutant: DragState is assigned before the test that declines
startFloating_StateFirst(garbage) ==
    IF lastWidgetOfFloating
    THEN /\ DragState' = DraggingFloatingWidget
         /\ startFloatingRet' = "false"
         /\ newFloating' = <<>>
         /\ UNCHANGED <<FloatingWidget, allowedAreas, DockArea, crashed, areaVars>>
    ELSE LET n == IF DockArea # NoArea THEN DockAreaCount ELSE garbage.count
         IN  IF DockArea = NoArea /\ (garbage.crash \/ ~takesOnlyOneTab(n))
             THEN /\ crashed' = TRUE
                  /\ startFloatingRet' = "none"
                  /\ newFloating' = <<>>
                  /\ UNCHANGED <<DragState, FloatingWidget, allowedAreas, DockArea, areaVars>>
             ELSE /\ DragState' = DraggingFloatingWidget
                  /\ LET Size == startFloatingSize(garbage)
                     IN  IF takesOnlyOneTab(n)
                         THEN FloatDockWidget(FreshFloating, Size)
                         ELSE FloatDockArea(FreshFloating, Size)
                  /\ setAllowedAreas
                  /\ keepFloatingWidget(FreshFloating)
                  /\ startFloatingRet' = "true"
                  /\ UNCHANGED crashed

\* DockWidgetTabPrivate::startFloating(); the return value is left in
\* startFloatingRet.  With DockArea == nullptr the reads of DockArea->size() and
\* DockArea->count() are undefined: the process dies or goes on with whatever
\* values it read (garbage).
startFloating(garbage) ==
    IF lastWidgetOfFloating
    THEN /\ startFloatingRet' = "false"
         /\ newFloating' = <<>>
         /\ UNCHANGED <<DragState, FloatingWidget, allowedAreas, DockArea, crashed, areaVars>>
    ELSE LET n == IF DockArea # NoArea THEN DockAreaCount ELSE garbage.count
         IN  IF DockArea = NoArea /\ (garbage.crash \/ ~takesOnlyOneTab(n))
             THEN /\ crashed' = TRUE
                  /\ startFloatingRet' = "none"
                  /\ newFloating' = <<>>
                  /\ UNCHANGED <<DragState, FloatingWidget, allowedAreas, DockArea, areaVars>>
             ELSE /\ DragState' = DraggingFloatingWidget
                  /\ LET Size == startFloatingSize(garbage)
                     IN  IF takesOnlyOneTab(n)
                         THEN FloatDockWidget(FreshFloating, Size)
                         ELSE FloatDockArea(FreshFloating, Size)
                  /\ setAllowedAreas
                  /\ keepFloatingWidget(FreshFloating)
                  /\ startFloatingRet' = "true"
                  /\ UNCHANGED crashed

\* what the reads through a null DockArea can yield
NoGarbage == [crash |-> FALSE, inside |-> FALSE, count |-> 0, size |-> 1]
Garbage == {[NoGarbage EXCEPT !.crash = TRUE]} \cup
           [crash : {FALSE}, inside : BOOLEAN, count : 0..MaxTabs, size : 1..MaxSize]

\* mutant: the tab count is not tested
startsTabDrag_AnyCount(n, pos) ==
    manhattanLength(pos, DragStartMousePosition) >= StartDragDistance

\* the condition under which mouseMoveEvent starts dragging the tab
startsTabDrag(n, pos) ==
    /\ n > 1
    /\ manhattanLength(pos, DragStartMousePosition) >= StartDragDistance

\* mutant: && where the code has ||
notDragging_And(leftHeld) == ~leftHeld /\ isDraggingState(DraggingInactive)

\* mutant: the test of DraggingInactive is left out
notDragging_ButtonOnly(leftHeld) == ~leftHeld

\* the condition under which mouseMoveEvent only resets the drag state
notDragging(leftHeld) == ~leftHeld \/ isDraggingState(DraggingInactive)

\* mutant: the branch that moves the floating container is never taken
movesFloatingWidget_Never == FALSE

\* the test that guards FloatingWidget->moveFloating() in mouseMoveEvent
movesFloatingWidget == isDraggingState(DraggingFloatingWidget)

\* mouseMoveEvent gets as far as the title area test
readsDockArea(leftHeld) == ~notDragging(leftHeld) /\ ~isDraggingState(DraggingFloatingWidget)

\* mutant: the DockWidgetMovable test is left out
floatingAllowed_Always == TRUE

\* the test that guards startFloating in mouseMoveEvent
floatingAllowed == movable

\* CDockWidgetTab::mouseMoveEvent(ev): leftHeld is ev->buttons() & Qt::LeftButton,
\* pos is ev->pos(), inside is whether the title area of DockArea contains
\* ev->globalPos(); garbage stands for the reads through a null DockArea
mouseMoveEvent(leftHeld, pos, inside, garbage) ==
    /\ ~crashed
    /\ clicked' = 0
    /\ activeTabChanged' = 0
    /\ polished' = 0
    /\ reorderCalls' = <<>>
    /\ UNCHANGED <<DragStartMousePosition, IsActiveTab, movable>>
    /\ IF notDragging(leftHeld)
       THEN /\ DragState' = DraggingInactive
            /\ startFloatingRet' = "none"
            /\ newFloating' = <<>>
            /\ moveFloatingCalls' = 0
            /\ tabMoved' = <<>>
            /\ UNCHANGED <<FloatingWidget, allowedAreas, DockArea, crashed, areaVars>>
       ELSE IF movesFloatingWidget
       THEN /\ moveFloatingCalls' = 1
            /\ startFloatingRet' = "none"
            /\ newFloating' = <<>>
            /\ tabMoved' = <<>>
            /\ UNCHANGED <<DragState, FloatingWidget, allowedAreas, DockArea, crashed, areaVars>>
       ELSE /\ moveFloatingCalls' = 0
            /\ IF isDraggingState(DraggingTab)
               THEN \E o \in 0..MaxOrigin : moveTab(pos, <<o, o>>)
               ELSE tabMoved' = <<>>
            /\ LET MouseInsideTitleArea == IF DockArea # NoArea THEN inside ELSE garbage.inside
                   n == IF DockArea # NoArea THEN DockAreaCount ELSE garbage.count
               IN  IF DockArea = NoArea /\ garbage.crash
                   THEN /\ crashed' = TRUE
                        /\ startFloatingRet' = "none"
                        /\ newFloating' = <<>>
                        /\ UNCHANGED <<DragState, FloatingWidget, allowedAreas, DockArea, areaVars>>
                   ELSE IF ~MouseInsideTitleArea
                   THEN IF floatingAllowed
                        THEN startFloating(garbage)
                        ELSE /\ startFloatingRet' = "none"
                             /\ newFloating' = <<>>
                             /\ UNCHANGED <<DragState, FloatingWidget, allowedAreas, DockArea, crashed, areaVars>>
                   ELSE /\ DragState' = IF startsTabDrag(n, pos) THEN DraggingTab ELSE DragState
                        /\ startFloatingRet' = "none"
                        /\ newFloating' = <<>>
                        /\ UNCHANGED <<FloatingWidget, allowedAreas, DockArea, crashed, areaVars>>
    /\ gesture' = IF gesture.pressed
                  THEN [gesture EXCEPT
                          !.far = @ \/ manhattanLength(pos, DragStartMousePosition) >= StartDragDistance,
                          !.floated = @ \/ newFloating' # <<>>]
                  ELSE gesture

(* ------------------------- the docking engine -------------------------- *)
\* another dock widget is added to the dock widget's area at tab index i
EnvInsertTab(i) ==
    /\ ~crashed
    /\ count < MaxTabs
    /\ i \in 0..count
    /\ count' = count + 1
    /\ tabIndex' = IF i <= tabIndex THEN tabIndex + 1 ELSE tabIndex
    /\ Quiet
    /\ UNCHANGED <<tabVars, dockAreaWidget, dockContainer, visibleDockAreaCount, movable, allowedAreas>>
    /\ UNCHANGED <<crashed, gesture>>

\* another dock widget (tab index i) is removed from the dock widget's area
EnvRemoveTab(i) ==
    /\ ~crashed
    /\ i \in 0..(count - 1)
    /\ i # tabIndex
    /\ count' = count - 1
    /\ tabIndex' = IF i < tabIndex THEN tabIndex - 1 ELSE tabIndex
    /\ Quiet
    /\ UNCHANGED <<tabVars, dockAreaWidget, dockContainer, visibleDockAreaCount, movable, allowedAreas>>
    /\ UNCHANGED <<crashed, gesture>>

\* another area of the dock widget's container is added or shown (1), or
\* removed or hidden (-1)
EnvShowArea(d) ==
    /\ ~crashed
    /\ visibleDockAreaCount + d \in 1..MaxAreas
    /\ visibleDockAreaCount' = visibleDockAreaCount + d
    /\ Quiet
    /\ UNCHANGED <<tabVars, dockAreaWidget, count, tabIndex, dockContainer, movable, allowedAreas>>
    /\ UNCHANGED <<crashed, gesture>>

\* the dock widget's area is docked into another container c, which then
\* shows n areas; the engine does not do this to the floating container a
\* drag of this tab is moving
EnvDockArea(c, n) ==
    /\ ~crashed
    /\ ~isDraggingState(DraggingFloatingWidget)
    /\ c # dockContainer
    /\ isFloating(c) => n > 1
    /\ dockContainer' = c
    /\ visibleDockAreaCount' = n
    /\ Quiet
    /\ UNCHANGED <<tabVars, dockAreaWidget, count, tabIndex, movable, allowedAreas>>
    /\ UNCHANGED <<crashed, gesture>>

\* CDockWidget::setFeatures switches DockWidgetMovable
EnvSetMovable(m) ==
    /\ ~crashed
    /\ m # movable
    /\ movable' = m
    /\ Quiet
    /\ UNCHANGED <<tabVars, areaVars, allowedAreas>>
    /\ UNCHANGED <<crashed, gesture>>

Next ==
    \/ \E b \in {LeftButton, RightButton}, p \in Points : mousePressEvent(b, p)
    \/ \E h \in -1..(MaxTabs - 1) : mouseReleaseEvent(h)
    \/ \E b \in BOOLEAN : setActiveTab(b)
    \/ \E a \in {NoArea, dockAreaWidget} : setDockAreaWidget(a)
    \/ \E l \in BOOLEAN, p \in Points :
          \E i \in (IF readsDockArea(l) /\ DockArea # NoArea THEN BOOLEAN ELSE {TRUE}),
             g \in (IF readsDockArea(l) /\ DockArea = NoArea THEN Garbage ELSE {NoGarbage}) :
                mouseMoveEvent(l, p, i, g)
    \/ \E i \in 0..MaxTabs : EnvInsertTab(i)
    \/ \E i \in 0..MaxTabs : EnvRemoveTab(i)
    \/ \E d \in {-1, 1} : EnvShowArea(d)
    \/ \E c \in {MainContainer} \cup FloatingIds, n \in 1..MaxAreas : EnvDockArea(c, n)
    \/ \E m \in BOOLEAN : EnvSetMovable(m)

Spec == Init /\ [][Next]_vars

(* ------------------------------ claims --------------------------------- *)
\* a left held move with the pointer outside the title area of a set DockArea
MoveOutside == \E p \in Points : mouseMoveEvent(TRUE, p, FALSE, NoGarbage)

\* a release, whatever the hit test says
Release == \E h \in -1..(MaxTabs - 1) : mouseReleaseEvent(h)

Dragging == DragState \in {DraggingMousePressed, DraggingTab}

\* C1: a left press followed by a release with no move of StartDragDistance
\* or more in between emits exactly one clicked, issues no reorder request,
\* creates no floating container and leaves the drag state Inactive.
C1_PressReleaseIsOneClick ==
    [][(gesture.pressed /\ ~gesture.far /\ Release) =>
          /\ clicked' = 1
          /\ reorderCalls' = <<>>
          /\ ~gesture.floated
          /\ DragState' = DraggingInactive]_vars

\* C2: while the dock widget's container is floating with one visible area
\* and the area holds one tab, no step creates a floating container or
\* enters DraggingFloatingWidget, and startFloating never returns true.
C2_LastFloatingWidgetNeverFloats ==
    [][(isFloating(dockContainer) /\ visibleDockAreaCount = 1 /\ count = 1) =>
          /\ newFloating' = <<>>
          /\ startFloatingRet' # "true"
          /\ (DragState' = DraggingFloatingWidget => DragState = DraggingFloatingWidget)]_vars

\* startFloating was attempted and declined in the configuration of C2
C2_Witness ==
    /\ startFloatingRet = "false"
    /\ isFloating(dockContainer) /\ visibleDockAreaCount = 1 /\ count = 1
    /\ Dragging

\* C3: in MousePressed or DraggingTab, with the dock widget movable and more
\* than one tab in the owning area, a left held move outside the title area
\* creates one floating container that holds exactly the dragged dock widget
\* (a new area with one tab); the area it came from loses exactly that tab
\* and stays in its container.
C3_FloatsOnlyTheDraggedWidget ==
    [][(Dragging /\ movable /\ DockArea # NoArea /\ count > 1 /\ MoveOutside) =>
          /\ startFloatingRet' = "true"
          /\ DragState' = DraggingFloatingWidget
          /\ Len(newFloating') = 1
          /\ newFloating'[1].content = "DockWidget"
          /\ newFloating'[1].originArea = DockArea
          /\ newFloating'[1].originCount = count - 1
          /\ newFloating'[1].originContainer = dockContainer
          /\ newFloating'[1].area # DockArea
          /\ dockAreaWidget' = newFloating'[1].area
          /\ count' = 1
          /\ dockContainer' = newFloating'[1].window
          /\ dockContainer' # dockContainer]_vars

\* a floating container was made of the dock widget alone and other tabs stayed behind
C3_Witness ==
    /\ startFloatingRet = "true"
    /\ Len(newFloating) = 1
    /\ newFloating[1].content = "DockWidget"
    /\ newFloating[1].originCount >= 1
    /\ DragState = DraggingFloatingWidget

\* C4: when startFloating does not decline and the owning area holds exactly
\* one tab, the one floating container created wraps the owning area itself:
\* the dock widget stays in the same area, no area is created and no
\* floating container is made of the dock widget alone.
C4_SingleTabFloatsTheArea ==
    [][(startFloatingRet' = "true" /\ DockArea # NoArea /\ count = 1) =>
          /\ Len(newFloating') = 1
          /\ newFloating'[1].content = "DockArea"
          /\ newFloating'[1].area = DockArea
          /\ DockArea' = DockArea
          /\ dockAreaWidget' = dockAreaWidget
          /\ count' = count
          /\ dockContainer' = newFloating'[1].window]_vars

\* a floating container was made of the whole area
C4_Witness ==
    /\ startFloatingRet = "true"
    /\ Len(newFloating) = 1
    /\ newFloating[1].content = "DockArea"
    /\ newFloating[1].area = DockArea
    /\ count = 1

\* C5: every reorder request of a release has its toIndex in 0..count-1 for
\* the owning area's tab count at the release, and toIndex is count-1 when
\* the hit test found no tab.
C5_ToIndexInRange ==
    [][reorderCalls' # <<>> =>
          /\ reorderCalls'[1].toIndex \in 0..(count - 1)
          /\ (mouseReleaseEvent(-1) => reorderCalls'[1].toIndex = count - 1)]_vars

\* a reorder request was issued after the area shrank to one tab during the drag
C5_Witness ==
    /\ reorderCalls # <<>>
    /\ count = 1
    /\ reorderCalls[1].toIndex = 0

\* C6: in every step the activeTabChanged notification and the restyling
\* happen exactly when IsActiveTab changes, once; setActiveTab with the
\* current value changes nothing and emits nothing.
C6_SetActiveTabIdempotent ==
    [][/\ activeTabChanged' = (IF IsActiveTab' # IsActiveTab THEN 1 ELSE 0)
       /\ polished' = activeTabChanged'
       /\ setActiveTab(IsActiveTab) =>
             /\ UNCHANGED <<tabVars, envVars, crashed>>
             /\ activeTabChanged' = 0
             /\ polished' = 0]_vars

\* the tab is active and the last step, such as a second setActiveTab(true), emitted nothing
C6_Witness ==
    /\ IsActiveTab
    /\ activeTabChanged = 0
    /\ polished = 0

\* C7: a startFloating that returns false leaves the drag state (MousePressed
\* or DraggingTab), FloatingWidget, the overlay's allowed areas and the dock
\* areas as they were and creates nothing; and every left held move outside
\* the title area of a movable dock widget in these drag states calls
\* startFloating, so a later one attempts it again.
C7_DeclineChangesNothing ==
    [][/\ startFloatingRet' = "false" =>
             /\ Dragging
             /\ DragState' = DragState
             /\ FloatingWidget' = FloatingWidget
             /\ allowedAreas' = allowedAreas
             /\ newFloating' = <<>>
             /\ UNCHANGED <<DockArea, areaVars>>
       /\ (Dragging /\ movable /\ DockArea # NoArea /\ MoveOutside) =>
             startFloatingRet' # "none"]_vars

\* startFloating declined in the middle of a tab drag, the overlay still untouched
C7_Witness ==
    /\ startFloatingRet = "false"
    /\ DragState = DraggingTab
    /\ allowedAreas = AllDockAreas

\* C8: while the dock widget is not movable no step calls startFloating,
\* creates a floating container or enters DraggingFloatingWidget.
C8_NotMovableNeverFloats ==
    [][~movable =>
          /\ startFloatingRet' = "none"
          /\ newFloating' = <<>>
          /\ (DragState' = DraggingFloatingWidget => DragState = DraggingFloatingWidget)]_vars

\* the tab of a dock widget that is not movable was dragged and reordered
C8_Witness ==
    /\ ~movable
    /\ reorderCalls # <<>>
    /\ reorderCalls[1].toIndex # reorderCalls[1].fromIndex

\* C9: a release leaves the drag state Inactive and the press position null;
\* it issues a reorder request exactly when the drag state was DraggingTab
\* and DockArea is set, at most one, from the dock widget's tab index to the
\* drop index.
C9_ReleaseResetsAndReorders ==
    [][\A h \in -1..(MaxTabs - 1) : mouseReleaseEvent(h) =>
          /\ DragState' = DraggingInactive
          /\ DragStartMousePosition' = NullPoint
          /\ Len(reorderCalls') <= 1
          /\ (reorderCalls' # <<>>) <=> (DragState = DraggingTab /\ DockArea # NoArea)
          /\ reorderCalls' # <<>> =>
                /\ reorderCalls'[1].fromIndex = tabIndex
                /\ reorderCalls'[1].toIndex = (IF h = -1 THEN count - 1 ELSE h)]_vars

\* a release ended a tab drag with one reorder request
C9_Witness ==
    /\ Len(reorderCalls) = 1
    /\ DragState = DraggingInactive
    /\ DragStartMousePosition = NullPoint
    /\ count > 1

\* C10: a move with the left button not held, or in drag state Inactive,
\* leaves the drag state Inactive and does nothing else.
C10_IdleMoveOnlyResets ==
    [][\A l \in BOOLEAN, p \in Points :
          ((~l \/ DragState = DraggingInactive) /\ mouseMoveEvent(l, p, TRUE, NoGarbage)) =>
             /\ DragState' = DraggingInactive
             /\ tabMoved' = <<>>
             /\ startFloatingRet' = "none"
             /\ newFloating' = <<>>
             /\ moveFloatingCalls' = 0
             /\ reorderCalls' = <<>>
             /\ clicked' = 0
             /\ activeTabChanged' = 0
             /\ UNCHANGED <<DragStartMousePosition, IsActiveTab, DockArea, FloatingWidget>>
             /\ UNCHANGED <<envVars, crashed>>]_vars

\* a floating drag that never saw its release is Inactive again
C10_Witness ==
    /\ DragState = DraggingInactive
    /\ gesture.pressed
    /\ gesture.floated

\* C11: whenever the drag state is DraggingFloatingWidget the overlay's
\* allowed areas are OuterDockAreas, and every step in which startFloating
\* returns true leaves them at OuterDockAreas.
C11_OverlayRestrictedWhileFloating ==
    /\ DragState = DraggingFloatingWidget => allowedAreas = OuterDockAreas
    /\ startFloatingRet = "true" => allowedAreas = OuterDockAreas

\* a floating drag has just begun with the overlay restricted
C11_Witness ==
    /\ DragState = DraggingFloatingWidget
    /\ startFloatingRet = "true"
    /\ allowedAreas = OuterDockAreas

\* C12: once a floating drag is over (a release, or a move without the left
\* button, takes the drag state from DraggingFloatingWidget to Inactive) the
\* tab holds no reference to a floating container.  Gestures during which
\* DockArea was unset are left aside.
C12_NoReferenceWhenInactive ==
    [][(/\ DragState = DraggingFloatingWidget
        /\ DragState' = DraggingInactive
        /\ ~gesture.detached) =>
          FloatingWidget' = NoFloatingWidget]_vars

\* C13: every release emits one clicked if the recorded press position is
\* not null and none if it is null, whatever the drag state; with no left
\* press since the last release the position is null and none is emitted.
C13_ClickedIffPressPositionSet ==
    [][Release =>
          /\ clicked' = (IF DragStartMousePosition # NullPoint THEN 1 ELSE 0)
          /\ (~gesture.pressed => DragStartMousePosition = NullPoint /\ clicked' = 0)]_vars

\* a release that ended a tab drag with a reorder request emitted clicked too
C13_Witness ==
    /\ clicked = 1
    /\ reorderCalls # <<>>
    /\ DragState = DraggingInactive

\* C14: the drag state becomes DraggingTab only from MousePressed, by a left
\* held move whose distance from the press position has reached
\* StartDragDistance and, DockArea being set, with the pointer inside the
\* title area and more than one tab in the area; so no step taken while the
\* area holds at most one tab enters DraggingTab, and a reorder request is
\* issued in drag state DraggingTab only.
C14_TabDragEntry ==
    [][/\ (DragState' = DraggingTab /\ DragState # DraggingTab) =>
             /\ DragState = DraggingMousePressed
             /\ \E p \in Points :
                   /\ manhattanLength(p, DragStartMousePosition) >= StartDragDistance
                   /\ \E i \in BOOLEAN, g \in Garbage \cup {NoGarbage} : mouseMoveEvent(TRUE, p, i, g)
                   /\ DockArea # NoArea => (count > 1 /\ mouseMoveEvent(TRUE, p, TRUE, NoGarbage))
       /\ reorderCalls' # <<>> => DragState = DraggingTab]_vars

\* C14 as stated: the entry condition above, and while the owning area holds
\* at most one tab DraggingTab is not entered and no reorder request is
\* issued (gestures during which DockArea was unset are left aside).
C14_NoReorderWhileOneTab ==
    [][/\ (DragState' = DraggingTab /\ DragState # DraggingTab) =>
             /\ DragState = DraggingMousePressed
             /\ \E p \in Points :
                   /\ manhattanLength(p, DragStartMousePosition) >= StartDragDistance
                   /\ DockArea # NoArea => (count > 1 /\ mouseMoveEvent(TRUE, p, TRUE, NoGarbage))
       /\ (DockArea # NoArea /\ count <= 1 /\ ~gesture.detached) => reorderCalls' = <<>>]_vars

\* a tab drag has begun in an area of several tabs and no release has come yet
C14_Witness ==
    /\ DragState = DraggingTab
    /\ DockArea # NoArea
    /\ count > 1
    /\ gesture.far
    /\ manhattanLength(DragStartMousePosition, NullPoint) > 0

\* C15: in drag state DraggingFloatingWidget a left held move calls
\* moveFloating once and does nothing else: the tab is not repositioned,
\* DockArea is not read (no crash when it is unset), startFloating is not
\* called, and the drag state and all other state stay as they were.
C15_FloatingMoveOnlyDelegates ==
    [][\A p \in Points :
          (DragState = DraggingFloatingWidget /\ mouseMoveEvent(TRUE, p, TRUE, NoGarbage)) =>
             /\ moveFloatingCalls' = 1
             /\ tabMoved' = <<>>
             /\ startFloatingRet' = "none"
             /\ newFloating' = <<>>
             /\ reorderCalls' = <<>>
             /\ clicked' = 0
             /\ DragState' = DraggingFloatingWidget
             /\ UNCHANGED <<DragStartMousePosition, IsActiveTab, DockArea, FloatingWidget>>
             /\ UNCHANGED <<envVars, crashed>>]_vars

\* the floating container was moved along while the tab had no dock area
C15_Witness ==
    /\ moveFloatingCalls = 1
    /\ DragState = DraggingFloatingWidget
    /\ DockArea = NoArea
    /\ ~crashed

\* C16: every step creates at most one floating container and initializes it
\* in the same step, with the recorded press position and, DockArea being
\* set, the size DockArea had before the step; the press position is the one
\* of the left press of the gesture (only a left press or a release changes
\* it); moveFloating is called only on a container initialized in an earlier
\* step.
C16_FloatingInitializedOnce ==
    [][/\ newFloating' # <<>> =>
             /\ Len(newFloating') = 1
             /\ gesture.pressed
             /\ newFloating'[1].pos = DragStartMousePosition
             /\ DockArea # NoArea => newFloating'[1].size = areaSize(DockArea)
             /\ newFloating'[1].window = FloatingWidget'
             /\ newFloating'[1].window # dockContainer
             /\ moveFloatingCalls' = 0
       /\ moveFloatingCalls' # 0 =>
             /\ moveFloatingCalls' = 1
             /\ newFloating' = <<>>
             /\ DragState = DraggingFloatingWidget
             /\ FloatingWidget # NoFloatingWidget
             /\ FloatingWidget' = FloatingWidget
       /\ DragStartMousePosition' # DragStartMousePosition =>
             Release \/ \E p \in Points : mousePressEvent(LeftButton, p)]_vars

\* a floating container was made of the dock widget and given the size of the
\* area the dock widget came from, which is not the size of its new area
C16_Witness ==
    /\ Len(newFloating) = 1
    /\ newFloating[1].content = "DockWidget"
    /\ newFloating[1].size = areaSize(newFloating[1].originArea)
    /\ newFloating[1].size # areaSize(newFloating[1].area)
    /\ newFloating[1].pos # NullPoint
    /\ ~gesture.detached

\* C17: in drag state DraggingTab a left held move with the pointer inside
\* the title area moves the tab to x = (pointer position mapped to the
\* parent).x - (press position).x and y = 0, and leaves the drag state
\* DraggingTab.
C17_TabFollowsPointerAtY0 ==
    [][\A p \in Points :
          (DragState = DraggingTab /\ DockArea # NoArea /\ mouseMoveEvent(TRUE, p, TRUE, NoGarbage)) =>
             /\ Len(tabMoved') = 1
             /\ tabMoved'[1].y = 0
             /\ \E o \in 0..MaxOrigin : tabMoved'[1].x = (p[1] + o) - DragStartMousePosition[1]
             /\ DragState' = DraggingTab]_vars

\* the tab was dragged to the left of where it was pressed
C17_Witness ==
    /\ DragState = DraggingTab
    /\ Len(tabMoved) = 1
    /\ tabMoved[1].x < 0
    /\ tabMoved[1].y = 0

\* C18: whenever a step ends in drag state DraggingFloatingWidget,
\* FloatingWidget is set: to the container startFloating created in that
\* step, or the state was DraggingFloatingWidget before and FloatingWidget
\* is unchanged; FloatingWidget changes only when startFloating creates a
\* container; and moveFloating is called only in DraggingFloatingWidget
\* with FloatingWidget set.
C18_FloatingWidgetSetWhileFloating ==
    [][/\ DragState' = DraggingFloatingWidget =>
             /\ FloatingWidget' # NoFloatingWidget
             /\ IF newFloating' # <<>>
                THEN FloatingWidget' = newFloating'[1].window
                ELSE DragState = DraggingFloatingWidget /\ FloatingWidget' = FloatingWidget
       /\ FloatingWidget' # FloatingWidget => newFloating' # <<>>
       /\ startFloatingRet' = "true" => (newFloating' # <<>> /\ DragState' = DraggingFloatingWidget)
       /\ moveFloatingCalls' # 0 =>
             (DragState = DraggingFloatingWidget /\ FloatingWidget # NoFloatingWidget)]_vars

\* the second floating container the tab created is being moved along
C18_Witness ==
    /\ DragState = DraggingFloatingWidget
    /\ moveFloatingCalls = 1
    /\ FloatingWidget > 1
    /\ FloatingWidget = dockContainer

\* C19: whenever mouseMoveEvent gets to the title area test (left button
\* held, drag state MousePressed or DraggingTab), DockArea is set, and the
\* handler does not crash.
C19_DockAreaSetWhenUsed ==
    [][(/\ Dragging
        /\ \E p \in Points, i \in BOOLEAN, g \in Garbage \cup {NoGarbage} :
              mouseMoveEvent(TRUE, p, i, g)) =>
          (DockArea # NoArea /\ ~crashed')]_vars

\* C20: a floating container is created only after a left press, and at most
\* one since that press; from Inactive the drag state goes to MousePressed
\* only, by a left press; DraggingTab is entered from MousePressed and
\* DraggingFloatingWidget from MousePressed or DraggingTab.
C20_FloatingOnlyAfterLeftPress ==
    [][/\ newFloating' # <<>> =>
             (gesture.pressed /\ ~gesture.floated /\ Len(newFloating') = 1)
       /\ DragState = DraggingInactive =>
             DragState' \in {DraggingInactive, DraggingMousePressed}
       /\ (DragState' = DraggingMousePressed /\ DragState # DraggingMousePressed) =>
             \E p \in Points : mousePressEvent(LeftButton, p)
       /\ (DragState' = DraggingTab /\ DragState # DraggingTab) =>
             DragState = DraggingMousePressed
       /\ (DragState' = DraggingFloatingWidget /\ DragState # DraggingFloatingWidget) =>
             DragState \in {DraggingMousePressed, DraggingTab}]_vars

\* after a tab drag that began with a left press, the dock widget was floated
\* out of a floating container
C20_Witness ==
    /\ Len(newFloating) = 1
    /\ gesture.pressed /\ gesture.far /\ gesture.floated
    /\ isFloating(newFloating[1].originContainer)
    /\ newFloating[1].originContainer # newFloating[1].window
    /\ tabMoved # <<>>
====
